---- MODULE Spec2Model ----
(***************************************************************************)
(* datumlib: tagged values (Datum), tagged collections (DatumCollection)   *)
(* and the collection algebra of datumlib/_collection_utils.py.            *)
(*                                                                         *)
(* The library is a set of pure functions over immutable containers.  The  *)
(* state of the model is a caller's session: the last call, its arguments  *)
(* and what it returned or raised.  One action per library operation; the  *)
(* partition -> cmap -> merge workflow of the doctests is a chain of       *)
(* actions over the same session.                                          *)
(***************************************************************************)
EXTENDS Integers, Sequences, FiniteSets, TLC

VARIABLES
    pc,     \* position of the session: "idle", "partitioned", "mapped", "done", "failed"
    call,   \* name of the last library function called
    src,    \* the collection argument c of the last call
    pred,   \* the predicate argument: the set of Datum on which it returns True
    fn,     \* the payload function argument, by name
    key,    \* the tag key argument of get_tags
    fill,   \* the fill_with argument of get_tags
    parts,  \* the collections held for / passed to merge, zip_with, compare_tags
    keys,   \* the keys argument of compare_tags
    pcalls, \* the arguments the predicate was invoked on during the last call
    ret,    \* outcome of the last call: [status, value, warnings]
    reverse,\* the reverse argument of sort_by
    heap,   \* the tag mappings in memory, by address
    vals,   \* the containers the caller holds; their tags are addresses
    given,  \* payload and tags of each container when it was built
    held,   \* the address of the mapping the caller passed, per container
    nops,   \* how many changes or updates the caller made after building
    lib,    \* the module of the last value-level update
    target, \* the index in vals of the argument of the last update
    steps,  \* Pipeline.steps: pairs <<name, fn>>
    pinput, \* the x that run was called with
    px,     \* run: the current x
    pk,     \* run: how many steps of the loop are over
    trace,  \* run: the trace argument
    trace_dict, \* run: the snapshots taken so far
    started,\* the names of the steps started, in order
    parallel,      \* run: the parallel argument
    use_processes, \* run: the use_processes argument
    max_workers,   \* run: the max_workers argument
    tasks,  \* the calls of apply made by the run so far, in order of submission
    pools,  \* the executors created by the run so far
    dreg,   \* dict_pipe: func_registry, pairs <<name, f>> in the order of the dict
    daux,   \* dict_pipe: aux_result
    dheap,  \* the dicts created by dict_pipe, by address
    dstate, \* the address bound to state in the closure of _pipe
    dcalls  \* the calls of _pipe: input, address returned, content when returned

memVars == <<heap, vals, given, held, nops, lib, target>>
pipeVars == <<steps, pinput, px, pk, trace, trace_dict, started>>
runArgs == <<parallel, use_processes, max_workers>>
runVars == <<runArgs, tasks, pools>>
dictVars == <<dreg, daux, dheap, dstate, dcalls>>

\* the variables the calls of the collection algebra leave alone
otherVars == <<reverse, dictVars, memVars, pipeVars, runVars>>

vars == <<pc, call, src, pred, fn, key, fill, parts, keys, pcalls, ret, otherVars>>

(***************************************************************************)
(* Bounds of the model: MaxLen, the longest collection passed to a call on  *)
(* one collection; MaxColls, the most collections passed to one variadic   *)
(* call; MaxWidth, the longest collection passed to a variadic call.       *)
(***************************************************************************)
MaxLen == 3
MaxColls == 2
MaxWidth == 2

(***************************************************************************)
(* Values.  Python's None is a value of its own; a tag mapping is a        *)
(* function from a finite set of string keys to values.  Tag values are    *)
(* strings; ListVal stands for a list-valued tag (a value Python cannot    *)
(* hash), PyNone for a tag value or fill value of None.                    *)
(***************************************************************************)
None == [none |-> TRUE]
PyNone == "None"
ListVal == "[1, 2]"
UnhashableVals == {ListVal}
EmptyTags == <<>>

Min(S) == CHOOSE m \in S : \A n \in S : m <= n

\* dict.get(key, default)
Get(tags, k, default) == IF k \in DOMAIN tags THEN tags[k] ELSE default

\* Datum(data, tags)
Datum(data, tags) == [data |-> data, tags |-> tags]

\* DatumCollection(entries, tags)
DatumCollection(entries, tags) == [entries |-> entries, tags |-> tags]

\* collect(*datums, tags=tags)
collect(datums, tags) == DatumCollection(datums, tags)

\* DatumCollection.valid_entries
valid_entries(c) == SelectSeq(c.entries, LAMBDA x : x # None)

(***************************************************************************)
(* Outcomes of a call: a returned value, or the exception raised.          *)
(***************************************************************************)
ErrOverlap == "ValueError: DatumCollection has overlapping (datum) entries"
ErrUnpack == "ValueError: not enough values to unpack (expected 2, got 0)"
ErrUnhashable == "TypeError: unhashable type: list"
ErrIndex == "IndexError: tuple index out of range"
ErrNoneAttr == "AttributeError: NoneType object has no attribute tags"
NoValue == <<>>

Return(v, w) == [status |-> "ok", value |-> v, warnings |-> w]
Raise(e, w) == [status |-> e, value |-> NoValue, warnings |-> w]

\* zip(*seqs): stops at the shortest argument; no argument gives nothing
Zip(seqs) ==
    IF Len(seqs) = 0 THEN <<>>
    ELSE [i \in 1..Min({Len(seqs[j]) : j \in 1..Len(seqs)}) |->
             [j \in 1..Len(seqs) |-> seqs[j][i]]]

(***************************************************************************)
(* Inputs.                                                                 *)
(***************************************************************************)
DataVals == {1, 2}
TagKeys == {"g"}
TagVals == {"A", "B"}
DTagSet == UNION {[D -> TagVals] : D \in SUBSET TagKeys}
DatumSet == {Datum(d, t) : d \in DataVals, t \in DTagSet}
Slots == DatumSet \cup {None}

\* collection-level tags: none, a date, a list-valued tag
CTagSet == {EmptyTags, [date |-> "1999-12-31"], [ids |-> ListVal]}
\* the keys of collection-level tags in the order sorted() puts them
CKeyOrder == <<"date", "ids">>

EntrySeqs == UNION {[1..n -> Slots] : n \in 0..MaxLen}
Collections == {collect(e, t) : e \in EntrySeqs, t \in CTagSet}

\* predicates: lambda d: d.tags.get(k) == v, lambda d: d.data > t, constants
Preds ==
    {{d \in DatumSet : Get(d.tags, k, PyNone) = v} : k \in TagKeys, v \in TagVals}
    \cup {{d \in DatumSet : d.data > t} : t \in DataVals}
    \cup {DatumSet}

(***************************************************************************)
(* partition (_collection_utils.py)                                        *)
(***************************************************************************)
\* the generator of (x, None) / (None, x) pairs, one per slot
partition_pairs(collection, masking_func) ==
    [i \in 1..Len(collection.entries) |->
        LET x == collection.entries[i]
        IN  IF x = None \/ x \in masking_func THEN <<x, None>> ELSE <<None, x>>]

\* the slots masking_func is evaluated on: `x is None or masking_func(x)`
partition_calls(collection) ==
    SelectSeq(collection.entries, LAMBDA x : ~(x = None))

partition(collection, masking_func) ==
    LET unzipped == Zip(partition_pairs(collection, masking_func))
    IN  IF Len(unzipped) # 2 THEN Raise(ErrUnpack, 0)
        ELSE Return(<<DatumCollection(unzipped[1], collection.tags),
                      DatumCollection(unzipped[2], collection.tags)>>, 0)

(***************************************************************************)
(* over_data and cmap (containers.py)                                      *)
(***************************************************************************)
\* payload functions: lambda x: x + 1, lambda x: x * 2
Fns == {"inc", "dbl"}
ApplyFn(f, x) == IF f = "inc" THEN x + 1 ELSE IF f = "dbl" THEN x * 2 ELSE x

\* over_data(func)(d)
over_data(func, d) == Datum(ApplyFn(func, d.data), d.tags)

\* mutant of cmap_over_data: the comprehension runs over valid_entries
cmap_over_valid(func, collection) ==
    collect([i \in 1..Len(valid_entries(collection)) |->
                over_data(func, valid_entries(collection)[i])],
            collection.tags)

\* the calls of func made by cmap(func)(collection), in order
cmap_calls(collection) == SelectSeq(collection.entries, LAMBDA x : x # None)

\* cmap(over_data(func))(collection)
cmap_over_data(func, collection) ==
    collect([i \in 1..Len(collection.entries) |->
                LET x == collection.entries[i]
                IN  IF x # None THEN over_data(func, x) ELSE None],
            collection.tags)

(***************************************************************************)
(* merge (_collection_utils.py)                                            *)
(***************************************************************************)
\* mutant of _check_and_pick: the length check is lost, the first hit wins
check_and_pick_first(xs) ==
    LET hits == SelectSeq(xs, LAMBDA x : x # None)
    IN  Return(IF Len(hits) > 0 THEN hits[1] ELSE None, 0)

\* _check_and_pick(xs)
check_and_pick(xs) ==
    LET hits == SelectSeq(xs, LAMBDA x : x # None)
    IN  IF Len(hits) > 1 THEN Raise(ErrOverlap, 0)
        ELSE Return(IF Len(hits) > 0 THEN hits[1] ELSE None, 0)

\* tuple(sorted(tags.items()))
SortedItems(tags) ==
    LET ks == SelectSeq(CKeyOrder, LAMBDA k : k \in DOMAIN tags)
    IN  [i \in 1..Len(ks) |-> <<ks[i], tags[ks[i]]>>]

\* hash(tuple(sorted(tags.items()))) raises on a value that cannot be hashed
Hashable(tags) == \A k \in DOMAIN tags : tags[k] \notin UnhashableVals

merge(collections) ==
    LET n == Len(collections)
        entries == Zip([j \in 1..n |-> collections[j].entries])
        picks == [i \in 1..Len(entries) |-> check_and_pick(entries[i])]
        merged == [i \in 1..Len(entries) |-> picks[i].value]
        hashable_dicts == {SortedItems(collections[j].tags) : j \in 1..n}
        w == IF Cardinality(hashable_dicts) # 1 THEN 1 ELSE 0
    IN  IF \E i \in 1..Len(entries) : picks[i].status # "ok"
            THEN Raise(ErrOverlap, 0)
        ELSE IF \E j \in 1..n : ~Hashable(collections[j].tags)
            THEN Raise(ErrUnhashable, 0)
        ELSE IF n = 0
            THEN Raise(ErrIndex, w)
        ELSE Return(DatumCollection(merged, collections[1].tags), w)

\* inputs of a variadic call: collection j holds, at each slot, None or a
\* Datum that carries j as its payload
MaskedEntries(j) ==
    UNION {[1..l -> {None, Datum(j, EmptyTags)}] : l \in 0..MaxWidth}
MaskedColls(j) == {collect(e, t) : e \in MaskedEntries(j), t \in CTagSet}
RECURSIVE MergeInputs(_)
MergeInputs(n) ==
    IF n = 0 THEN {<<>>}
    ELSE {Append(cs, c) : cs \in MergeInputs(n - 1), c \in MaskedColls(n)}

(***************************************************************************)
(* filter_collection, get_tags, compact (_collection_utils.py)             *)
(***************************************************************************)
\* mutant of filter_collection: iterates c.entries, empty slots pass
filter_collection_entries(c, predicate) ==
    collect(SelectSeq(c.entries, LAMBDA x : x = None \/ x \in predicate), c.tags)

filter_collection(c, predicate) ==
    collect(SelectSeq(valid_entries(c), LAMBDA x : x \in predicate), c.tags)

\* mutant of get_tags: fill_with is not passed on to dict.get
get_tags_nofill(c, k, fill_with) ==
    LET valid == valid_entries(c)
    IN  [i \in 1..Len(valid) |-> Get(valid[i].tags, k, PyNone)]

get_tags(c, k, fill_with) ==
    LET valid == valid_entries(c)
    IN  [i \in 1..Len(valid) |-> Get(valid[i].tags, k, fill_with)]

\* mutant of compact: the collection tags are not passed to collect
compact_notags(c) == collect(valid_entries(c), EmptyTags)

compact(c) == collect(valid_entries(c), c.tags)

\* arguments of get_tags
GetKeys == {"g", "missing_key"}
FillVals == {PyNone, "-1"}

(***************************************************************************)
(* group_by_tag (_collection_utils.py)                                     *)
(***************************************************************************)
\* mutant of group_by_tag: the lambda compares the tag with itself
group_by_tag_all(c, k) ==
    LET all_tags == get_tags(c, k, PyNone)
        unique_tags == {all_tags[i] : i \in 1..Len(all_tags)}
    IN  [tag \in unique_tags |-> filter_collection(c, DatumSet)]

\* get_tags is called without fill_with: an entry lacking the key yields None
group_by_tag(c, k) ==
    LET all_tags == get_tags(c, k, PyNone)
        unique_tags == {all_tags[i] : i \in 1..Len(all_tags)}
    IN  [tag \in unique_tags |->
            filter_collection(c, {m \in DatumSet : Get(m.tags, k, PyNone) = tag})]

(***************************************************************************)
(* sort_by (_collection_utils.py)                                          *)
(*                                                                         *)
(* Tag values are written as strings: IntVals stand for the numbers 10 and *)
(* 20, the other values for Python strings.  SortOrder lists the values    *)
(* in the order < puts them within one type; < between values of two       *)
(* types, or on None, raises TypeError, so the relative place of values of *)
(* two types in SortOrder is never used.                                   *)
(***************************************************************************)
IntVals == {"10", "20"}
SortOrder == <<PyNone, "", "A", "B", "10", "20">>
ErrCompare == "TypeError: < not supported between instances"

PyType(v) ==
    IF v \in IntVals THEN "int" ELSE IF v = PyNone THEN "NoneType" ELSE "str"
Rank(v) == CHOOSE n \in 1..Len(SortOrder) : SortOrder[n] = v

\* key_fn(entry): entry.tags.get(key) if entry else ""
key_fn(entry, k) == IF entry # None THEN Get(entry.tags, k, PyNone) ELSE ""

\* sorted(xs, key=..., reverse=rev): stable in both directions
Sorted(xs, ks, rev) ==
    LET n == Len(xs)
        before(i) ==
            {j \in 1..n : IF rev THEN Rank(ks[j]) > Rank(ks[i])
                                 ELSE Rank(ks[j]) < Rank(ks[i])}
            \cup {j \in 1..n : j < i /\ ks[j] = ks[i]}
    IN  [p \in 1..n |-> xs[CHOOSE i \in 1..n : Cardinality(before(i)) = p - 1]]

\* mutant of Sorted: reverse is done by reversing the ascending result
SortedThenReversed(xs, ks, rev) ==
    LET n == Len(xs)
        asc == Sorted(xs, ks, FALSE)
    IN  IF rev THEN [p \in 1..n |-> asc[n + 1 - p]] ELSE asc

\* mutant of sort_by: see SortedThenReversed
sort_by_reversed(c, k, rev) ==
    LET ks == [i \in 1..Len(c.entries) |-> key_fn(c.entries[i], k)]
        comparable ==
            \A i, j \in 1..Len(ks) :
                PyType(ks[i]) = PyType(ks[j]) /\ PyType(ks[i]) # "NoneType"
    IN  IF Len(ks) >= 2 /\ ~comparable THEN Raise(ErrCompare, 0)
        ELSE Return(DatumCollection(SortedThenReversed(c.entries, ks, rev), c.tags), 0)

sort_by(c, k, rev) ==
    LET ks == [i \in 1..Len(c.entries) |-> key_fn(c.entries[i], k)]
        comparable ==
            \A i, j \in 1..Len(ks) :
                PyType(ks[i]) = PyType(ks[j]) /\ PyType(ks[i]) # "NoneType"
    IN  IF Len(ks) >= 2 /\ ~comparable THEN Raise(ErrCompare, 0)
        ELSE Return(DatumCollection(Sorted(c.entries, ks, rev), c.tags), 0)

\* inputs of sort_by: entries scored with a number or a string, an entry
\* without the score tag, empty slots
SortKey == "score"
SortSlots ==
    {None, Datum(1, EmptyTags), Datum(1, [score |-> "B"])}
    \cup {Datum(d, [score |-> v]) : d \in DataVals, v \in IntVals \cup {"A"}}
SortColls ==
    {collect(e, t) : e \in UNION {[1..n -> SortSlots] : n \in 0..MaxLen},
                     t \in {EmptyTags, [date |-> "1999-12-31"]}}

(***************************************************************************)
(* zip_with, compare_tags (_collection_utils.py)                           *)
(***************************************************************************)
\* func of zip_with: lambda *xs: xs, lambda *xs: sum(x is not None for x in xs)
ZipFns == {"tuple", "count"}
ApplyZipFn(func, xs) ==
    IF func = "tuple" THEN xs
    ELSE <<Cardinality({j \in 1..Len(xs) : xs[j] # None})>>

zip_with(collections, func) ==
    LET rows == Zip([j \in 1..Len(collections) |-> collections[j].entries])
    IN  Return([i \in 1..Len(rows) |-> ApplyZipFn(func, rows[i])], 0)

\* _check_tags(*datums, key=key): d.tags on None raises, after len(datums) > 1
check_tags(datums, k) ==
    IF ~(Len(datums) > 1) THEN Return(FALSE, 0)
    ELSE IF \E j \in 1..Len(datums) : datums[j] = None THEN Raise(ErrNoneAttr, 0)
    ELSE Return(Cardinality({Get(datums[j].tags, k, PyNone) :
                                j \in 1..Len(datums)}) = 1, 0)

compare_tags(collections, ks) ==
    LET rows == Zip([j \in 1..Len(collections) |-> collections[j].entries])
        chk(i, n) == check_tags(rows[i], ks[n])
    IN  IF \E n \in 1..Len(ks), i \in 1..Len(rows) : chk(i, n).status # "ok"
            THEN Raise(ErrNoneAttr, 0)
        ELSE Return(\A n \in 1..Len(ks), i \in 1..Len(rows) : chk(i, n).value, 0)

\* inputs of compare_tags: slots are None or a Datum tagged g=A or g=B
CmpEntries ==
    UNION {[1..l -> {None, Datum(1, [g |-> "A"]), Datum(1, [g |-> "B"])}] :
              l \in 0..MaxWidth}
CmpInputs == UNION {[1..n -> {collect(e, EmptyTags) : e \in CmpEntries}] :
                       n \in 0..MaxColls}
CmpKeys == {<<>>, <<"g">>}

\* inputs of zip_with: the masked collections without collection tags
RECURSIVE ZipInputs(_)
ZipInputs(n) ==
    IF n = 0 THEN {<<>>}
    ELSE {Append(cs, collect(e, EmptyTags)) :
             cs \in ZipInputs(n - 1), e \in MaskedEntries(n)}

(***************************************************************************)
(* Construction and value-level updates with tags held by reference        *)
(* (_containers.py, containers.py, _datum_utils.py)                        *)
(*                                                                         *)
(* A Python dict is an object: two names may denote one dict, and a change *)
(* made through one name is seen through the other.  Here a container      *)
(* holds the address of its tags in heap.  Addresses 1 and 2 are the two   *)
(* {} defaults of the signatures of datum and collect, each created once   *)
(* when the function is defined.                                           *)
(***************************************************************************)
MaxOps == 2
DatumDefault == 1
CollectDefault == 2
Omitted == 0

\* the mappings a caller passes, and the changes it makes to them later
TagArgs == {EmptyTags, [a |-> "1"]}
MutKeys == {"a", "b"}
MutVals == {"1", "2"}

\* datum(data, tags={}): return Datum(data, tags)
datum(data, tags) ==
    [data |-> data, tags |-> IF tags = Omitted THEN DatumDefault ELSE tags]

\* collect(*datums, tags={}): return DatumCollection(datums, tags)
collect_ref(datums, tags) ==
    [entries |-> datums, tags |-> IF tags = Omitted THEN CollectDefault ELSE tags]

\* d.tags | new_meta
Overlay(old, new) ==
    [k \in DOMAIN old \cup DOMAIN new |-> IF k \in DOMAIN new THEN new[k] ELSE old[k]]

\* the functions handed to map_tags and over_tags, by what they return
TagFns == {"set_b", "set_a", "proxy_b", "listy"}
FnResult(f) ==
    CASE f = "set_b"   -> [kind |-> "dict", items |-> [b |-> "2"]]
      [] f = "set_a"   -> [kind |-> "dict", items |-> [a |-> "2"]]
      [] f = "proxy_b" -> [kind |-> "mappingproxy", items |-> [b |-> "2"]]
      [] OTHER         -> [kind |-> "list", items |-> EmptyTags]

ErrNotDict == "TypeError: Function passed to update must return a dictionary"
ErrNotDataclass == "TypeError: must be called with a dataclass type or instance"
Outcome(st, v, h) == [status |-> st, value |-> v, heap |-> h]

PayloadOps == {"over_data", "map_data", "with_data"}
TagOps == {"map_tags", "over_tags"}

\* containers.py: over_data(func)(d), map_data(func)(d)
legacy_payload_op(h, op, func, d) ==
    Outcome("ok", [data |-> ApplyFn(func, d.data), tags |-> d.tags], h)

\* containers.py: map_tags(func)(d), over_tags(func)(d)
legacy_tag_op(h, op, func, d) ==
    LET new_meta == FnResult(func)
    IN  IF new_meta.kind # "dict" THEN Outcome(ErrNotDict, NoValue, h)
        ELSE Outcome("ok", [data |-> d.data, tags |-> Len(h) + 1],
                     Append(h, Overlay(h[d.tags], new_meta.items)))

\* containers.py: add_tags(d, key, value)
legacy_add_tags(h, d, k, v) ==
    Outcome("ok", [data |-> d.data, tags |-> Len(h) + 1],
            Append(h, Overlay(h[d.tags], [x \in {k} |-> v])))

\* _datum_utils.py: dataclasses.fields(d) accepts dataclasses only, and the
\* Datum of _containers.py is a NamedTuple
is_dataclass(d) == FALSE
get_class_and_fields(d) == IF is_dataclass(d) THEN "ok" ELSE ErrNotDataclass

\* _datum_utils.py: with_data(new_data)(d), over_data(func)(d), map_data(func)(d)
du_payload_op(h, op, func, d) ==
    IF get_class_and_fields(d) # "ok" THEN Outcome(ErrNotDataclass, NoValue, h)
    ELSE Outcome("ok", [data |-> IF op = "with_data" THEN 2 ELSE ApplyFn(func, d.data),
                        tags |-> d.tags], h)

\* _datum_utils.py: map_tags(func)(d), over_tags(func)(d)
du_tag_op(h, op, func, d) ==
    LET new_meta == FnResult(func)
    IN  IF get_class_and_fields(d) # "ok" THEN Outcome(ErrNotDataclass, NoValue, h)
        ELSE IF new_meta.kind \notin {"dict", "mappingproxy"}
            THEN Outcome(ErrNotDict, NoValue, h)
        ELSE Outcome("ok", [data |-> d.data, tags |-> Len(h) + 1],
                     Append(h, Overlay(h[d.tags], new_meta.items)))

\* _datum_utils.py: add_tags(d, key, value)
du_add_tags(h, d, k, v) ==
    IF get_class_and_fields(d) # "ok" THEN Outcome(ErrNotDataclass, NoValue, h)
    ELSE Outcome("ok", [data |-> d.data, tags |-> Len(h) + 1],
                 Append(h, Overlay(h[d.tags], [x \in {k} |-> v])))

Libs == {"containers", "_datum_utils"}

(***************************************************************************)
(* Mono and MonoCollection (monolib/containers.py)                         *)
(***************************************************************************)
Mono(data, sample_rate, tags) ==
    [data |-> data, sample_rate |-> sample_rate, tags |-> tags]

\* MonoCollection.apply(fn): x.apply(fn) if x else None, for x in entries
mono_apply(c, func) ==
    Return(collect([i \in 1..Len(c.entries) |->
                       LET x == c.entries[i]
                       IN  IF x # None
                             THEN Mono(ApplyFn(func, x.data), x.sample_rate, x.tags)
                             ELSE None],
                   c.tags), 0)

\* MonoCollection.map_tags(fn): x_.map_tags(fn) for x_ in valid_entries
mono_map_tags(c, func) ==
    LET valid == valid_entries(c)
        new_meta == FnResult(func)
    IN  IF valid # <<>> /\ new_meta.kind # "dict" THEN Raise(ErrNotDict, 0)
        ELSE Return(collect([i \in 1..Len(valid) |->
                                Mono(valid[i].data, valid[i].sample_rate,
                                     Overlay(valid[i].tags, new_meta.items))],
                            c.tags), 0)

\* MonoCollection.with_tags(sequence, key):
\* x_.with_tags(val, key=key) for x_, val in zip(valid_entries, sequence)
mono_with_tags(c, sequence, k) ==
    LET valid == valid_entries(c)
    IN  Return(collect([i \in 1..Min({Len(valid), Len(sequence)}) |->
                           Mono(valid[i].data, valid[i].sample_rate,
                                Overlay(valid[i].tags, [x \in {k} |-> sequence[i]]))],
                       c.tags), 0)

\* inputs: collections of mono signals with empty slots, label sequences
MonoSlots == {None, Mono(1, 44100, EmptyTags), Mono(2, 44100, [a |-> "1"])}
MonoColls ==
    {collect(e, t) : e \in UNION {[1..n -> MonoSlots] : n \in 0..MaxLen},
                     t \in {EmptyTags, [date |-> "1999-12-31"]}}
LabelSeqs == UNION {[1..n -> TagVals] : n \in 0..MaxLen}

(***************************************************************************)
(* Pipeline.run (_pipe.py)                                                 *)
(*                                                                         *)
(* The current x is a collection, a Datum or a bare value; it is written   *)
(* with its shape so that isinstance can be read off it, and with the      *)
(* value under a field of its own for each shape: values of different      *)
(* Python types are never compared.                                        *)
(***************************************************************************)
Box(shape, v) ==
    CASE shape = "bare" -> [shape |-> shape, num |-> v]
      [] shape = "datum" -> [shape |-> shape, datum |-> v]
      [] shape = "datum2" -> [shape |-> shape, nested |-> v]
      [] OTHER -> [shape |-> shape, coll |-> v]
Val(x) ==
    CASE x.shape = "bare" -> x.num
      [] x.shape = "datum" -> x.datum
      [] x.shape = "datum2" -> x.nested
      [] OTHER -> x.coll
MaxSteps == 2
StepNames == {"a", "b", "c"}
NameOrder == <<"a", "b", "c">>
StepFns == {"inc", "neg", "wrap", "over_inc", "over_dbl", "retag", "chk"}
ErrOperand == "TypeError: unsupported operand type for a Datum"
ErrNoData == "AttributeError: int object has no attribute data"
ErrBoom == "ValueError: bad entry"
WrapTags == [k |-> "1"]
NewTags == [new |-> "1"]

\* fn(arg), where isEntry tells that arg is a Datum.  Functions of a payload:
\*   inc   lambda v: v + 1
\*   neg   lambda v: -v
\*   wrap  lambda v: datum(abs(v), {"k": "1"})
\* functions of a Datum:
\*   over_inc, over_dbl   over_data(lambda v: v + 1), over_data(lambda v: v * 2)
\*   retag                lambda d: Datum(d.data, {"new": "1"})
\*   chk                  returns d, raises ValueError when d.data == 2
StepFn(f, arg, isEntry) ==
    CASE f \in {"inc", "neg", "wrap"} ->
            IF isEntry THEN Raise(ErrOperand, 0)
            ELSE Return(CASE f = "inc" -> arg + 1
                          [] f = "neg" -> 0 - arg
                          [] OTHER -> Datum(IF arg < 0 THEN 0 - arg ELSE arg, WrapTags), 0)
      [] OTHER ->
            IF ~isEntry THEN Raise(ErrNoData, 0)
            ELSE CASE f = "retag" -> Return(Datum(arg.data, NewTags), 0)
                   [] f = "chk" -> IF arg.data = 2 THEN Raise(ErrBoom, 0) ELSE Return(arg, 0)
                   [] OTHER -> Return(over_data(IF f = "over_inc" THEN "inc" ELSE "dbl", arg), 0)

\* whether fn returns a Datum (otherwise a number)
ReturnsDatum(f) == f \notin {"inc", "neg"}

\* mutant of Put: a name already present keeps its first snapshot
PutFirst(d, name, v) ==
    [n \in DOMAIN d \cup {name} |-> IF n \in DOMAIN d THEN d[n] ELSE v]

\* trace_dict[name] = x
Put(d, name, v) == [n \in DOMAIN d \cup {name} |-> IF n = name THEN v ELSE d[n]]

\* apply(entry): return None if entry is None else fn(entry)
apply(f, entry) == IF entry = None THEN Return(None, 0) ELSE StepFn(f, entry, TRUE)

\* mutant of apply_all: an entry whose transform raises is left out as an
\* empty slot and the step goes on
apply_all_skip(entries, f) ==
    Return([i \in 1..Len(entries) |->
               IF apply(f, entries[i]).status = "ok" THEN apply(f, entries[i]).value
               ELSE None], 0)

\* [apply(e) for e in entries]: one entry after the other; the first
\* exception ends the comprehension
apply_all(entries, f) ==
    LET outs == [i \in 1..Len(entries) |-> apply(f, entries[i])]
        failed == {i \in 1..Len(entries) : outs[i].status # "ok"}
    IN  IF failed # {} THEN Raise(outs[Min(failed)].status, 0)
        ELSE Return([i \in 1..Len(entries) |-> outs[i].value], 0)

\* mutant of collection_step: the result of fn is rewrapped with the tags
\* the entry had, as it is for a single Datum
collection_step_rewrap(x, f) ==
    LET r == apply_all(Val(x).entries, f)
    IN  IF r.status # "ok" THEN r
        ELSE Return(Box("collection",
                        collect([i \in 1..Len(r.value) |->
                                    IF r.value[i] = None THEN None
                                    ELSE Datum(r.value[i].data,
                                               Val(x).entries[i].tags)],
                                Val(x).tags)), 0)

\* mutant of collection_step: the result is built from the entries that
\* are not None
collection_step_valid(x, f) ==
    LET r == apply_all(Val(x).entries, f)
    IN  IF r.status # "ok" THEN r
        ELSE Return(Box("collection",
                        collect(SelectSeq(r.value, LAMBDA e : e # None),
                                Val(x).tags)), 0)

\* isinstance(x, DatumCollection): x = collect(*new_entries, tags=x.tags)
collection_step(x, f) ==
    LET r == apply_all(Val(x).entries, f)
    IN  IF r.status # "ok" THEN r
        ELSE Return(Box("collection", collect(r.value, Val(x).tags)), 0)

\* mutant of datum_step: fn is given the Datum itself and its result is
\* taken as it is
datum_step_whole(x, f) ==
    LET r == StepFn(f, Val(x), TRUE)
    IN  IF r.status # "ok" THEN r
        ELSE Return(Box("datum", r.value), 0)

\* isinstance(x, Datum): x = Datum(fn(x.data), tags=x.tags); the payload is
\* a number (shape datum) or again a Datum (shape datum2)
datum_step(x, f) ==
    LET r == StepFn(f, Val(x).data, x.shape = "datum2")
    IN  IF r.status # "ok" THEN r
        ELSE Return(Box(IF ReturnsDatum(f) THEN "datum2" ELSE "datum",
                        Datum(r.value, Val(x).tags)), 0)

\* plain entry: x = fn(x)
bare_step(x, f) ==
    LET r == StepFn(f, Val(x), FALSE)
    IN  IF r.status # "ok" THEN r
        ELSE Return(Box(IF ReturnsDatum(f) THEN "datum" ELSE "bare", r.value), 0)

\* the body of the loop of run for one step, without the snapshot
step_result(x, f) ==
    IF x.shape = "collection" THEN collection_step(x, f)
    ELSE IF x.shape \in {"datum", "datum2"} THEN datum_step(x, f)
    ELSE bare_step(x, f)

\* mutant of run_step: the snapshot is taken before the step is applied
run_step_stale(x, d, step, tr) ==
    LET r == step_result(x, step[2])
    IN  [status |-> r.status,
         x |-> IF r.status = "ok" THEN r.value ELSE x,
         trace_dict |-> IF r.status = "ok" /\ tr THEN Put(d, step[1], x) ELSE d]

\* one pass of the loop of run: for name, fn in steps
run_step(x, d, step, tr) ==
    LET r == step_result(x, step[2])
    IN  [status |-> r.status,
         x |-> IF r.status = "ok" THEN r.value ELSE x,
         trace_dict |-> IF r.status = "ok" /\ tr THEN Put(d, step[1], r.value) ELSE d]

\* Pipeline(steps[:n]).run(x), a run of the first n steps without trace
RECURSIVE RunPrefix(_, _, _)
RunPrefix(p, x, n) ==
    IF n = 0 THEN x ELSE run_step(RunPrefix(p, x, n - 1), <<>>, p[n], FALSE).x

\* Pipeline(p[:n]).run(x, trace=True) with parallel=False, as
\* [status, x, trace_dict]
RECURSIVE RunSeq(_, _, _)
RunSeq(p, x, n) ==
    IF n = 0 THEN [status |-> "ok", x |-> x, trace_dict |-> <<>>]
    ELSE LET r == RunSeq(p, x, n - 1)
         IN  IF r.status # "ok" THEN r ELSE run_step(r.x, r.trace_dict, p[n], TRUE)

(***************************************************************************)
(* The calls of apply of a run.  A call is written [step, pos, arg, state, *)
(* out]: the step and the position of the entry, the entry, the state of   *)
(* the call (of its future, in parallel mode: "pending", "running",        *)
(* "done", "cancelled") and, once done, what it returned or raised.        *)
(***************************************************************************)
MaxWorkers == 2
ErrPickle == "AttributeError: cannot pickle local object Pipeline.run.locals.apply"
ErrWorkers == "ValueError: max_workers must be greater than 0"

\* the first position whose call of apply raises, 0 when there is none
FirstFailing(entries, f) ==
    LET failed == {i \in 1..Len(entries) : apply(f, entries[i]).status # "ok"}
    IN  IF failed = {} THEN 0 ELSE Min(failed)

\* the calls made by [apply(e) for e in entries] in step k: they end with
\* the first one that raises
seq_calls(entries, f, k) ==
    LET m == IF FirstFailing(entries, f) = 0 THEN Len(entries)
             ELSE FirstFailing(entries, f)
    IN  [i \in 1..m |-> [step |-> k, pos |-> i, arg |-> entries[i],
                         state |-> "done", out |-> apply(f, entries[i])]]

\* executor.map(apply, entries) in step k: one future per entry, submitted
\* in the order of the entries.  A process pool has to pickle apply, which
\* is a local function: the future fails and apply is never called.
submit(entries, f, k, processes) ==
    [i \in 1..Len(entries) |->
        [step |-> k, pos |-> i, arg |-> entries[i],
         state |-> IF processes THEN "done" ELSE "pending",
         out |-> IF processes THEN Raise(ErrPickle, 0) ELSE Return(None, 0)]]

\* the calls of step k, in the order of the entries
StepTasks(ts, k) == SelectSeq(ts, LAMBDA t : t.step = k)

\* the position at which list(executor.map(...)) raises: the first call
\* that raised, once it and all the calls before it are done; 0 otherwise
FailedAt(ts) ==
    LET seen == {i \in 1..Len(ts) :
                    /\ \A j \in 1..i : ts[j].state = "done"
                    /\ ts[i].out.status # "ok"}
    IN  IF seen = {} THEN 0 ELSE Min(seen)

\* mutant of map_done: the list is taken to be complete when its first
\* result is there
map_done_first(ts) ==
    IF Len(ts) = 0 THEN TRUE ELSE ts[1].state = "done" /\ ts[1].out.status = "ok"

\* list(executor.map(...)) has taken every result: each call is done and
\* none raised
map_done(ts) ==
    \A i \in 1..Len(ts) : ts[i].state = "done" /\ ts[i].out.status = "ok"

\* mutant of gather: the results are taken in the reverse order
gather_reversed(ts) == [i \in 1..Len(ts) |-> ts[Len(ts) + 1 - i].out.value]

\* list(executor.map(apply, entries)): the results in the order of the
\* entries, whatever the order in which the calls ended
gather(ts) == [i \in 1..Len(ts) |-> ts[i].out.value]

\* mutant of pool_exit: the pool is left open when the step raised
pool_exit_quiet(ps, exc) ==
    IF exc THEN ps
    ELSE [i \in 1..Len(ps) |-> IF i = Len(ps) THEN [ps[i] EXCEPT !.open = FALSE]
                                ELSE ps[i]]

\* the end of the with block: executor.__exit__ shuts the pool down, with
\* or without an exception
pool_exit(ps, exc) ==
    [i \in 1..Len(ps) |-> IF i = Len(ps) THEN [ps[i] EXCEPT !.open = FALSE]
                           ELSE ps[i]]

\* inputs of run
\* the names of a pipeline matter only by which of them are equal: each step
\* has a name used before it or the first name not used yet
Canonical(p) ==
    \A i \in 1..Len(p) :
        \E j \in 1..(Cardinality({p[m][1] : m \in 1..(i - 1)}) + 1) :
            p[i][1] = NameOrder[j]
Pipelines ==
    {p \in UNION {[1..n -> StepNames \X StepFns] : n \in 0..MaxSteps} : Canonical(p)}
PipeSlots == {None, Datum(1, [g |-> "A"]), Datum(2, EmptyTags)}
PipeInputs ==
    {Box("bare", 1), Box("datum", Datum(1, [g |-> "A"]))}
    \cup {Box("collection", collect(e, [date |-> "1999-12-31"])) :
             e \in UNION {[1..n -> PipeSlots] : n \in 0..2}}

\* inputs of the runs in which parallel is drawn: steps of distinct names,
\* collections of up to three slots
RunFns == {"inc", "over_inc", "retag", "chk"}
RunPipelines ==
    {p \in UNION {[1..n -> StepNames \X RunFns] : n \in 0..MaxSteps} :
        \A i \in 1..Len(p) : p[i][1] = NameOrder[i]}
RunInputs ==
    {Box("bare", 1), Box("datum", Datum(1, [g |-> "A"]))}
    \cup {Box("collection", collect(e, [date |-> "1999-12-31"])) :
             e \in UNION {[1..n -> PipeSlots] : n \in 0..3}}
\* parallel, use_processes, max_workers; the last two are read in parallel
\* mode only
RunModes ==
    {<<FALSE, FALSE, 1>>}
    \cup {<<TRUE, up, mw>> : up \in BOOLEAN, mw \in 0..MaxWorkers}

(***************************************************************************)
(* dict_pipe (monolib/comp.py)                                             *)
(***************************************************************************)
MaxCalls == 2
\* func_registry: a dict, so the names are distinct, in insertion order
Registries ==
    {r \in UNION {[1..n -> StepNames \X Fns] : n \in 1..2} :
        \A i \in 1..Len(r) : r[i][1] = NameOrder[i]}
DictInputs == {0, 1}

\* state.update({name: x})
update(d, name, v) == [n \in DOMAIN d \cup {name} |-> IF n = name THEN v ELSE d[n]]

\* the loop of _pipe over the first n items of the registry, on the dict
\* that state is bound to: the last x and the dict after it
RECURSIVE pipe_loop(_, _, _, _)
pipe_loop(reg, x, state, n) ==
    IF n = 0 THEN [x |-> x, state |-> state]
    ELSE LET r == pipe_loop(reg, x, state, n - 1)
             v == ApplyFn(reg[n][2], r.x)
         IN  [x |-> v, state |-> update(r.state, reg[n][1], v)]

\* the value after the n-th function of the registry for the input x
RECURSIVE ValueAfter(_, _, _)
ValueAfter(reg, x, n) ==
    IF n = 0 THEN x ELSE ApplyFn(reg[n][2], ValueAfter(reg, x, n - 1))

(***************************************************************************)
(* The session.                                                            *)
(***************************************************************************)
Init ==
    /\ pc = "idle"
    /\ call = "none"
    /\ src = collect(<<>>, EmptyTags)
    /\ pred = {}
    /\ fn = "none"
    /\ key = "g"
    /\ fill = PyNone
    /\ parts = <<>>
    /\ keys = <<>>
    /\ pcalls = <<>>
    /\ ret = Return(NoValue, 0)
    /\ reverse = FALSE
    /\ heap = <<EmptyTags, EmptyTags>>
    /\ vals = <<>>
    /\ given = <<>>
    /\ held = <<>>
    /\ nops = 0
    /\ lib = "none"
    /\ target = 0
    /\ steps = <<>>
    /\ pinput = Box("bare", 0)
    /\ px = Box("bare", 0)
    /\ pk = 0
    /\ trace = FALSE
    /\ trace_dict = <<>>
    /\ started = <<>>
    /\ parallel = FALSE
    /\ use_processes = FALSE
    /\ max_workers = 1
    /\ tasks = <<>>
    /\ pools = <<>>
    /\ dreg = <<>>
    /\ daux = FALSE
    /\ dheap = <<>>
    /\ dstate = 0
    /\ dcalls = <<>>

\* first, rest = partition(c, p)
Partition ==
    /\ pc = "idle"
    /\ \E c \in Collections, p \in Preds :
        LET r == partition(c, p)
        IN  /\ call' = "partition"
            /\ src' = c
            /\ pred' = p
            /\ pcalls' = partition_calls(c)
            /\ ret' = r
            /\ parts' = IF r.status = "ok" THEN r.value ELSE <<>>
            /\ pc' = IF r.status = "ok" THEN "partitioned" ELSE "failed"
    /\ UNCHANGED <<fn, key, fill, keys>>
    /\ UNCHANGED otherVars

\* first = cmap(over_data(f))(first)
CmapFirst ==
    /\ pc = "partitioned"
    /\ \E f \in Fns :
        LET r == cmap_over_data(f, parts[1])
        IN  /\ call' = "cmap"
            /\ fn' = f
            /\ ret' = Return(r, 0)
            /\ parts' = <<r, parts[2]>>
            /\ pc' = "mapped"
    /\ pcalls' = <<>>
    /\ UNCHANGED <<src, pred, key, fill, keys>>
    /\ UNCHANGED otherVars

\* merge(first, rest)
MergeParts ==
    /\ pc \in {"partitioned", "mapped"}
    /\ LET r == merge(parts)
       IN  /\ call' = "merge"
           /\ ret' = r
           /\ pc' = "merged"
    /\ pcalls' = <<>>
    /\ UNCHANGED <<src, pred, fn, key, fill, parts, keys>>
    /\ UNCHANGED otherVars

\* merge(*collections) on collections built by the caller
MergeAny ==
    /\ pc = "idle"
    /\ \E n \in 0..MaxColls : \E cs \in MergeInputs(n) :
        LET r == merge(cs)
        IN  /\ call' = "merge"
            /\ parts' = cs
            /\ ret' = r
            /\ pc' = "done"
    /\ pcalls' = <<>>
    /\ UNCHANGED <<src, pred, fn, key, fill, keys>>
    /\ UNCHANGED otherVars

\* filter_collection(c, p)
Filter ==
    /\ pc = "idle"
    /\ \E c \in Collections, p \in Preds :
        /\ call' = "filter_collection"
        /\ src' = c
        /\ pred' = p
        /\ pcalls' = valid_entries(c)
        /\ ret' = Return(filter_collection(c, p), 0)
    /\ pc' = "done"
    /\ UNCHANGED <<fn, key, fill, parts, keys>>
    /\ UNCHANGED otherVars

\* compact(c)
Compact ==
    /\ pc = "idle"
    /\ \E c \in Collections :
        /\ call' = "compact"
        /\ src' = c
        /\ ret' = Return(compact(c), 0)
    /\ pc' = "done"
    /\ pcalls' = <<>>
    /\ UNCHANGED <<pred, fn, key, fill, parts, keys>>
    /\ UNCHANGED otherVars

\* get_tags(c, key, fill_with)
GetTags ==
    /\ pc = "idle"
    /\ \E c \in Collections, k \in GetKeys, f \in FillVals :
        /\ call' = "get_tags"
        /\ src' = c
        /\ key' = k
        /\ fill' = f
        /\ ret' = Return(get_tags(c, k, f), 0)
    /\ pc' = "done"
    /\ pcalls' = <<>>
    /\ UNCHANGED <<pred, fn, parts, keys>>
    /\ UNCHANGED otherVars

\* zip_with(*collections, func=f)
ZipWith ==
    /\ pc = "idle"
    /\ \E n \in 0..MaxColls : \E cs \in ZipInputs(n) : \E f \in ZipFns :
        /\ call' = "zip_with"
        /\ parts' = cs
        /\ fn' = f
        /\ ret' = zip_with(cs, f)
    /\ pc' = "done"
    /\ pcalls' = <<>>
    /\ UNCHANGED <<src, pred, key, fill, keys>>
    /\ UNCHANGED otherVars

\* compare_tags(*collections, keys=ks)
CompareTags ==
    /\ pc = "idle"
    /\ \E cs \in CmpInputs, ks \in CmpKeys :
        /\ call' = "compare_tags"
        /\ parts' = cs
        /\ keys' = ks
        /\ ret' = compare_tags(cs, ks)
    /\ pc' = "done"
    /\ pcalls' = <<>>
    /\ UNCHANGED <<src, pred, fn, key, fill>>
    /\ UNCHANGED otherVars

\* group_by_tag(c, key)
GroupByTag ==
    /\ pc = "idle"
    /\ \E c \in Collections, k \in GetKeys :
        /\ call' = "group_by_tag"
        /\ src' = c
        /\ key' = k
        /\ ret' = Return(group_by_tag(c, k), 0)
    /\ pc' = "done"
    /\ pcalls' = <<>>
    /\ UNCHANGED <<pred, fn, fill, parts, keys>>
    /\ UNCHANGED otherVars

\* sort_by(c, key, reverse)
SortBy ==
    /\ pc = "idle"
    /\ \E c \in SortColls, rev \in BOOLEAN :
        /\ call' = "sort_by"
        /\ src' = c
        /\ key' = SortKey
        /\ reverse' = rev
        /\ ret' = sort_by(c, SortKey, rev)
    /\ pc' = "done"
    /\ pcalls' = <<>>
    /\ UNCHANGED <<pred, fn, fill, parts, keys>>
    /\ UNCHANGED <<dictVars, memVars, pipeVars, runVars>>

\* the caller builds a mapping (or leaves tags out) and calls datum
MakeDatum ==
    /\ pc \in {"idle", "made"}
    /\ \E data \in DataVals, t \in TagArgs, omit \in BOOLEAN :
        LET h == IF omit THEN heap ELSE Append(heap, t)
            a == IF omit THEN Omitted ELSE Len(h)
            d == datum(data, a)
        IN  /\ heap' = h
            /\ vals' = Append(vals, d)
            /\ given' = Append(given, [data |-> data, tags |-> h[d.tags]])
            /\ held' = Append(held, a)
    /\ call' = "datum"
    /\ pc' = IF pc = "idle" THEN "made" ELSE "made2"
    /\ ret' = Return(NoValue, 0)
    /\ UNCHANGED <<src, pred, fn, key, fill, parts, keys, pcalls, reverse, dictVars, pipeVars, runVars>>
    /\ UNCHANGED <<nops, lib, target>>

\* the caller builds a mapping (or leaves tags out) and calls collect
MakeCollection ==
    /\ pc \in {"idle", "made"}
    /\ \E t \in TagArgs, omit \in BOOLEAN :
        LET h == IF omit THEN heap ELSE Append(heap, t)
            a == IF omit THEN Omitted ELSE Len(h)
            c == collect_ref(<<>>, a)
        IN  /\ heap' = h
            /\ vals' = Append(vals, c)
            /\ given' = Append(given, [data |-> 0, tags |-> h[c.tags]])
            /\ held' = Append(held, a)
    /\ call' = "collect"
    /\ pc' = IF pc = "idle" THEN "made" ELSE "made2"
    /\ ret' = Return(NoValue, 0)
    /\ UNCHANGED <<src, pred, fn, key, fill, parts, keys, pcalls, reverse, dictVars, pipeVars, runVars>>
    /\ UNCHANGED <<nops, lib, target>>

\* the caller sets a key of a mapping it passed to a constructor earlier
CallerMutates ==
    /\ pc \in {"made", "made2", "mutated"}
    /\ nops < MaxOps
    /\ \E i \in 1..Len(held), k \in MutKeys, v \in MutVals :
        /\ held[i] # Omitted
        /\ heap' = [heap EXCEPT ![held[i]] = Overlay(@, [x \in {k} |-> v])]
    /\ nops' = nops + 1
    /\ call' = "setitem"
    /\ pc' = "mutated"
    /\ UNCHANGED <<src, pred, fn, key, fill, parts, keys, pcalls, reverse, dictVars, ret, pipeVars, runVars>>
    /\ UNCHANGED <<vals, given, held, lib, target>>

\* the result of an update joins the values the caller holds
Updated(i, out) ==
    /\ target' = i
    /\ heap' = out.heap
    /\ ret' = IF out.status = "ok" THEN Return(out.value, 0) ELSE Raise(out.status, 0)
    /\ IF out.status = "ok"
         THEN /\ vals' = Append(vals, out.value)
              /\ given' = Append(given, [data |-> out.value.data,
                                         tags |-> out.heap[out.value.tags]])
              /\ held' = Append(held, Omitted)
         ELSE UNCHANGED <<vals, given, held>>

\* over_data(func)(d), map_data(func)(d), with_data(2)(d) on a value held
PayloadOp ==
    /\ pc \in {"made", "updated"}
    /\ nops < MaxOps
    /\ \E i \in 1..Len(vals), l \in Libs, op \in PayloadOps, func \in Fns :
        /\ "data" \in DOMAIN vals[i]
        /\ l = "containers" => op # "with_data"
        /\ call' = op /\ lib' = l /\ fn' = func
        /\ Updated(i, IF l = "containers"
                        THEN legacy_payload_op(heap, op, func, vals[i])
                        ELSE du_payload_op(heap, op, func, vals[i]))
    /\ nops' = nops + 1
    /\ pc' = "updated"
    /\ UNCHANGED <<src, pred, key, fill, parts, keys, pcalls, reverse, dictVars, pipeVars, runVars>>

\* map_tags(func)(d), over_tags(func)(d) on a value held
TagOp ==
    /\ pc \in {"made", "updated"}
    /\ nops < MaxOps
    /\ \E i \in 1..Len(vals), l \in Libs, op \in TagOps, func \in TagFns :
        /\ "data" \in DOMAIN vals[i]
        /\ call' = op /\ lib' = l /\ fn' = func
        /\ Updated(i, IF l = "containers"
                        THEN legacy_tag_op(heap, op, func, vals[i])
                        ELSE du_tag_op(heap, op, func, vals[i]))
    /\ nops' = nops + 1
    /\ pc' = "updated"
    /\ UNCHANGED <<src, pred, key, fill, parts, keys, pcalls, reverse, dictVars, pipeVars, runVars>>

\* add_tags(d, key, value) on a value held
AddTags ==
    /\ pc \in {"made", "updated"}
    /\ nops < MaxOps
    /\ \E i \in 1..Len(vals), l \in Libs, k \in MutKeys :
        /\ "data" \in DOMAIN vals[i]
        /\ call' = "add_tags" /\ lib' = l /\ fn' = k
        /\ Updated(i, IF l = "containers"
                        THEN legacy_add_tags(heap, vals[i], k, "2")
                        ELSE du_add_tags(heap, vals[i], k, "2"))
    /\ nops' = nops + 1
    /\ pc' = "updated"
    /\ UNCHANGED <<src, pred, key, fill, parts, keys, pcalls, reverse, dictVars, pipeVars, runVars>>

\* cmap(over_data(func))(c) on any collection
Cmap ==
    /\ pc = "idle"
    /\ \E c \in Collections, func \in Fns :
        /\ call' = "cmap"
        /\ src' = c
        /\ fn' = func
        /\ pcalls' = cmap_calls(c)
        /\ ret' = Return(cmap_over_data(func, c), 0)
    /\ pc' = "done"
    /\ UNCHANGED <<pred, key, fill, parts, keys>>
    /\ UNCHANGED otherVars

\* c.apply(fn)
MonoApply ==
    /\ pc = "idle"
    /\ \E c \in MonoColls, func \in Fns :
        /\ call' = "MonoCollection.apply"
        /\ src' = c /\ fn' = func
        /\ ret' = mono_apply(c, func)
        /\ UNCHANGED <<key, keys>>
    /\ pc' = "done"
    /\ UNCHANGED <<pred, fill, parts, pcalls>>
    /\ UNCHANGED otherVars

\* c.map_tags(fn)
MonoMapTags ==
    /\ pc = "idle"
    /\ \E c \in MonoColls, func \in TagFns :
        /\ call' = "MonoCollection.map_tags"
        /\ src' = c /\ fn' = func
        /\ ret' = mono_map_tags(c, func)
        /\ UNCHANGED <<key, keys>>
    /\ pc' = "done"
    /\ UNCHANGED <<pred, fill, parts, pcalls>>
    /\ UNCHANGED otherVars

\* c.with_tags(sequence, key)
MonoWithTags ==
    /\ pc = "idle"
    /\ \E c \in MonoColls, sequence \in LabelSeqs :
        /\ call' = "MonoCollection.with_tags"
        /\ src' = c /\ keys' = sequence /\ key' = "label"
        /\ ret' = mono_with_tags(c, sequence, "label")
        /\ UNCHANGED fn
    /\ pc' = "done"
    /\ UNCHANGED <<pred, fill, parts, pcalls>>
    /\ UNCHANGED otherVars

\* Pipeline(steps).run(x, trace=...) is entered
PipeStart ==
    /\ pc = "idle"
    /\ \E p \in Pipelines, x \in PipeInputs, tr \in BOOLEAN :
        /\ steps' = p /\ pinput' = x /\ px' = x /\ trace' = tr
    /\ pk' = 0
    /\ trace_dict' = <<>>
    /\ started' = <<>>
    /\ call' = "run"
    /\ pc' = "running"
    /\ ret' = Return(NoValue, 0)
    /\ UNCHANGED <<src, pred, fn, key, fill, parts, keys, pcalls, reverse, dictVars, memVars>>
    /\ UNCHANGED runVars

\* Pipeline(steps).run(x, trace, parallel, use_processes, max_workers)
RunStart ==
    /\ pc = "idle"
    /\ \E p \in RunPipelines, x \in RunInputs, tr \in BOOLEAN, m \in RunModes :
        /\ steps' = p /\ pinput' = x /\ px' = x /\ trace' = tr
        /\ parallel' = m[1] /\ use_processes' = m[2] /\ max_workers' = m[3]
    /\ pk' = 0
    /\ trace_dict' = <<>>
    /\ started' = <<>>
    /\ call' = "run"
    /\ pc' = "running"
    /\ ret' = Return(NoValue, 0)
    /\ UNCHANGED <<src, pred, fn, key, fill, parts, keys, pcalls, reverse, dictVars, memVars>>
    /\ UNCHANGED <<tasks, pools>>

\* one pass of the loop without a pool; an exception of fn ends the run
PipeStep ==
    /\ pc = "running"
    /\ pk < Len(steps)
    /\ ~(parallel /\ px.shape = "collection")
    /\ LET r == run_step(px, trace_dict, steps[pk + 1], trace)
       IN  /\ started' = Append(started, steps[pk + 1][1])
           /\ px' = r.x
           /\ trace_dict' = r.trace_dict
           /\ IF r.status = "ok"
                THEN pk' = pk + 1 /\ pc' = "running" /\ UNCHANGED ret
                ELSE pk' = pk /\ pc' = "raised" /\ ret' = Raise(r.status, 0)
    /\ tasks' = IF px.shape = "collection"
                  THEN tasks \o seq_calls(Val(px).entries, steps[pk + 1][2], pk + 1)
                  ELSE tasks
    /\ UNCHANGED <<steps, pinput, trace, call, runArgs, pools>>
    /\ UNCHANGED <<src, pred, fn, key, fill, parts, keys, pcalls, reverse, dictVars, memVars>>

\* a pass of the loop on a collection with parallel set: the executor is
\* created and executor.map submits one call of apply per entry
PoolOpen ==
    /\ pc = "running"
    /\ pk < Len(steps)
    /\ parallel /\ px.shape = "collection"
    /\ started' = Append(started, steps[pk + 1][1])
    /\ IF max_workers <= 0
         THEN /\ pc' = "raised"
              /\ ret' = Raise(ErrWorkers, 0)
              /\ UNCHANGED <<tasks, pools>>
         ELSE /\ pc' = "mapping"
              /\ pools' = Append(pools, [step |-> pk + 1, open |-> TRUE])
              /\ tasks' = tasks \o submit(Val(px).entries, steps[pk + 1][2],
                                          pk + 1, use_processes)
              /\ UNCHANGED ret
    /\ UNCHANGED <<steps, pinput, px, pk, trace, trace_dict, call, runArgs>>
    /\ UNCHANGED <<src, pred, fn, key, fill, parts, keys, pcalls, reverse, dictVars, memVars>>

\* a worker that is free takes the next call from the queue of the pool
TaskStart ==
    /\ pc \in {"mapping", "failing"}
    /\ Cardinality({j \in 1..Len(tasks) : tasks[j].state = "running"}) < max_workers
    /\ \E j \in 1..Len(tasks) :
        /\ tasks[j].state = "pending"
        /\ \A i \in 1..(j - 1) : tasks[i].state # "pending"
        /\ tasks' = [tasks EXCEPT ![j].state = "running"]
    /\ UNCHANGED <<pc, call, ret, pipeVars, runArgs, pools>>
    /\ UNCHANGED <<src, pred, fn, key, fill, parts, keys, pcalls, reverse, dictVars, memVars>>

\* a call of apply ends in its worker, in any order among those running
TaskEnd ==
    /\ pc \in {"mapping", "failing"}
    /\ \E j \in 1..Len(tasks) :
        /\ tasks[j].state = "running"
        /\ tasks' = [tasks EXCEPT ![j].state = "done",
                                  ![j].out = apply(steps[tasks[j].step][2], tasks[j].arg)]
    /\ UNCHANGED <<pc, call, ret, pipeVars, runArgs, pools>>
    /\ UNCHANGED <<src, pred, fn, key, fill, parts, keys, pcalls, reverse, dictVars, memVars>>

\* list(executor.map(...)) reaches a result that is an exception: the
\* futures not yet started are cancelled and the exception leaves the list
GatherFail ==
    /\ pc = "mapping"
    /\ FailedAt(StepTasks(tasks, pk + 1)) # 0
    /\ tasks' = [j \in 1..Len(tasks) |->
                    IF tasks[j].state = "pending"
                      THEN [tasks[j] EXCEPT !.state = "cancelled"]
                      ELSE tasks[j]]
    /\ pc' = "failing"
    /\ UNCHANGED <<call, ret, pipeVars, runArgs, pools>>
    /\ UNCHANGED <<src, pred, fn, key, fill, parts, keys, pcalls, reverse, dictVars, memVars>>

\* the end of the with block and of the pass: the pool is shut down once
\* no call is running; then x = collect(*new_entries, tags=x.tags) and the
\* snapshot, or the exception leaves run
PoolClose ==
    /\ pc \in {"mapping", "failing"}
    /\ LET ts == StepTasks(tasks, pk + 1)
           x == Box("collection", collect(gather(ts), Val(px).tags))
       IN  IF pc = "mapping"
             THEN /\ map_done(ts)
                  /\ px' = x
                  /\ trace_dict' = IF trace THEN Put(trace_dict, steps[pk + 1][1], x)
                                             ELSE trace_dict
                  /\ pk' = pk + 1
                  /\ pc' = "running"
                  /\ pools' = pool_exit(pools, FALSE)
                  /\ UNCHANGED ret
             ELSE /\ \A i \in 1..Len(tasks) : tasks[i].state # "running"
                  /\ ret' = Raise(ts[FailedAt(ts)].out.status, 0)
                  /\ pc' = "raised"
                  /\ pools' = pool_exit(pools, TRUE)
                  /\ UNCHANGED <<px, pk, trace_dict>>
    /\ UNCHANGED <<steps, pinput, trace, started, call, runArgs, tasks>>
    /\ UNCHANGED <<src, pred, fn, key, fill, parts, keys, pcalls, reverse, dictVars, memVars>>

\* pipeline = dict_pipe(func_registry, aux_result=...): state = {} is
\* created here, once, and _pipe closes over it
DictPipe ==
    /\ pc = "idle"
    /\ \E r \in Registries, aux \in BOOLEAN :
        /\ dreg' = r
        /\ daux' = aux
    /\ dheap' = <<<<>>>>
    /\ dstate' = 1
    /\ dcalls' = <<>>
    /\ call' = "dict_pipe"
    /\ pc' = "piped"
    /\ ret' = Return(NoValue, 0)
    /\ UNCHANGED <<src, pred, fn, key, fill, parts, keys, pcalls, reverse>>
    /\ UNCHANGED <<memVars, pipeVars, runVars>>

\* pipeline(x): _pipe updates the dict of the closure and returns it
DictCall ==
    /\ pc = "piped"
    /\ Len(dcalls) < MaxCalls
    /\ \E x \in DictInputs :
        LET r == pipe_loop(dreg, x, dheap[dstate], Len(dreg))
        IN  /\ dheap' = [dheap EXCEPT ![dstate] = r.state]
            /\ dcalls' = Append(dcalls, [input |-> x, ref |-> dstate,
                                         at_return |-> r.state, x |-> r.x])
            /\ ret' = Return(IF daux THEN [state |-> dstate, x |-> r.x]
                                     ELSE [state |-> dstate], 0)
    /\ call' = "_pipe"
    /\ UNCHANGED <<pc, dreg, daux, dstate>>
    /\ UNCHANGED <<src, pred, fn, key, fill, parts, keys, pcalls, reverse>>
    /\ UNCHANGED <<memVars, pipeVars, runVars>>

\* return (x, trace_dict) if trace else x
PipeReturn ==
    /\ pc = "running"
    /\ pk = Len(steps)
    /\ ret' = Return(IF trace THEN [x |-> px, trace_dict |-> trace_dict]
                              ELSE [x |-> px], 0)
    /\ pc' = "returned"
    /\ UNCHANGED <<call, pipeVars, runVars>>
    /\ UNCHANGED <<src, pred, fn, key, fill, parts, keys, pcalls, reverse, dictVars, memVars>>

Next ==
    \/ Partition
    \/ CmapFirst
    \/ MergeParts
    \/ MergeAny
    \/ Filter
    \/ Compact
    \/ GetTags
    \/ ZipWith
    \/ CompareTags
    \/ GroupByTag
    \/ SortBy
    \/ Cmap
    \/ MakeDatum
    \/ MakeCollection
    \/ CallerMutates
    \/ PayloadOp
    \/ TagOp
    \/ AddTags
    \/ MonoApply
    \/ MonoMapTags
    \/ MonoWithTags
    \/ PipeStart
    \/ PipeStep
    \/ PipeReturn
    \/ DictPipe
    \/ DictCall

Spec == Init /\ [][Next]_vars

\* the runs of a pipeline in sequential and in parallel mode
NextRun ==
    \/ RunStart
    \/ PipeStep
    \/ PoolOpen
    \/ TaskStart
    \/ TaskEnd
    \/ GatherFail
    \/ PoolClose
    \/ PipeReturn

SpecRun == Init /\ [][NextRun]_vars

(***************************************************************************)
(* Vocabulary of the properties.                                           *)
(***************************************************************************)
\* the occupied positions of a sequence of slots
Occ(e) == {i \in 1..Len(e) : e[i] # None}
\* the k-th smallest member of a set of positions
KthOf(S, k) == CHOOSE i \in S : Cardinality({j \in S : j <= i}) = k
\* all the collections of cs have the same number of slots
EqualLengths(cs) ==
    \A i, j \in 1..Len(cs) : Len(cs[i].entries) = Len(cs[j].entries)
\* the inputs that hold an entry at position i
HoldersAt(cs, i) == {j \in 1..Len(cs) : cs[j].entries[i] # None}
\* some position is occupied in two or more of the equal-length inputs
Overlapping(cs) ==
    /\ Len(cs) >= 1
    /\ \E i \in 1..Len(cs[1].entries) : Cardinality(HoldersAt(cs, i)) >= 2
\* the inputs with their collection tags removed
Untagged(cs) == [j \in 1..Len(cs) |-> collect(cs[j].entries, EmptyTags)]

\* C1: merge(*partition(c, p)) returns a collection equal to c, for every
\* collection c (length 0 included) and every predicate p: partition returns
\* for every c, and merging its two outputs gives back c, tags included.
C1_RoundTrip ==
    /\ (call = "partition" => ret.status = "ok")
    /\ (pc = "merged" /\ fn = "none" => ret.status = "ok" /\ ret.value = src)

\* C2: partition(c, p) returns two collections of len(c) slots each; an empty
\* slot is empty in both, an entry satisfying p sits in the first at its
\* position (second empty there), any other entry in the second (first
\* empty there); p is never called on an empty slot.
C2_PartitionShape ==
    call = "partition" =>
        /\ ret.status = "ok"
        /\ LET e == src.entries
               first == ret.value[1].entries
               second == ret.value[2].entries
           IN  /\ Len(first) = Len(e)
               /\ Len(second) = Len(e)
               /\ \A i \in 1..Len(e) :
                    /\ e[i] = None => first[i] = None /\ second[i] = None
                    /\ e[i] # None /\ e[i] \in pred =>
                           first[i] = e[i] /\ second[i] = None
                    /\ e[i] # None /\ e[i] \notin pred =>
                           second[i] = e[i] /\ first[i] = None
        /\ \A k \in 1..Len(pcalls) : pcalls[k] # None

\* C3: partition c by p, lift f over the payloads of the first partition,
\* merge: the result has len(c) slots, slot i empty where c[i] is empty,
\* c[i] with payload f(payload) and the same tags where p(c[i]), c[i]
\* unchanged elsewhere, and the collection tags of c; for every c, p and f.
C3_MaskedUpdate ==
    /\ (call = "partition" => ret.status = "ok")
    /\ (pc = "merged" /\ fn \in Fns =>
          /\ ret.status = "ok"
          /\ ret.value.tags = src.tags
          /\ Len(ret.value.entries) = Len(src.entries)
          /\ \A i \in 1..Len(src.entries) :
               LET x == src.entries[i]
                   y == ret.value.entries[i]
               IN  IF x = None THEN y = None
                   ELSE IF x \in pred
                        THEN y = Datum(ApplyFn(fn, x.data), x.tags)
                        ELSE y = x)

\* C4: merge of equal-length collections raises the overlap error and
\* returns nothing whenever some position is occupied in two or more inputs.
C4_OverlapRaises ==
    call = "merge" /\ EqualLengths(parts) /\ Overlapping(parts) =>
        ret.status = ErrOverlap /\ ret.value = NoValue

\* a merge of two 2-slot collections that overlap at slot 1 only has raised
C4_Witness ==
    /\ call = "merge" /\ pc = "done"
    /\ Len(parts) = 2
    /\ Len(parts[1].entries) = 2 /\ Len(parts[2].entries) = 2
    /\ HoldersAt(parts, 1) = {1, 2}
    /\ HoldersAt(parts, 2) = {2}
    /\ ret.status = ErrOverlap

\* C5: merge, zip_with and compare_tags raise a shape-mismatch error when
\* their input collections do not all have the same number of slots.
C5_ShapeMismatch ==
    call \in {"merge", "zip_with", "compare_tags"} /\ ~EqualLengths(parts) =>
        ret.status = "ShapeMismatchError"

\* C6: for n >= 1 equal-length inputs with no position occupied twice, merge
\* returns a collection of that length whose slot i holds the one entry
\* found at i among the inputs, or is empty when none holds one; the
\* entries do not depend on the order of the inputs.
C6_MergeDisjoint ==
    call = "merge" /\ Len(parts) >= 1 /\ EqualLengths(parts)
                   /\ ~Overlapping(parts) =>
        /\ ret.status = "ok"
        /\ Len(ret.value.entries) = Len(parts[1].entries)
        /\ \A i \in 1..Len(parts[1].entries) :
             /\ HoldersAt(parts, i) = {} => ret.value.entries[i] = None
             /\ \A j \in HoldersAt(parts, i) :
                    ret.value.entries[i] = parts[j].entries[i]
        /\ \A q \in Permutations(1..Len(parts)) :
             LET r == merge([j \in 1..Len(parts) |-> parts[q[j]]])
             IN  r.status = "ok" /\ r.value.entries = ret.value.entries

\* C7: when the collection tags of the inputs are not all equal, merge does
\* not fail: it warns exactly once, returns the entries it would return if
\* the tags agreed and carries the tags of the first input; when the tags
\* are all equal it does not warn.
C7_TagMismatchWarns ==
    call = "merge" /\ Len(parts) >= 1 /\ EqualLengths(parts)
                   /\ ~Overlapping(parts) =>
        LET same == \A i, j \in 1..Len(parts) : parts[i].tags = parts[j].tags
        IN  /\ ~same =>
                /\ ret.status = "ok"
                /\ ret.warnings = 1
                /\ ret.value.tags = parts[1].tags
                /\ ret.value.entries = merge(Untagged(parts)).value.entries
            /\ same => ret.warnings = 0

\* C8: filter(c, p) has no empty slot and holds exactly the entries of c
\* that satisfy p, in their order in c, with the collection tags of c; so
\* it is no longer than c.valid_entries and all its elements satisfy p.
C8_Filter ==
    call = "filter_collection" =>
        LET e == src.entries
            r == ret.value.entries
            keep == {i \in Occ(e) : e[i] \in pred}
        IN  /\ ret.status = "ok"
            /\ ret.value.tags = src.tags
            /\ Len(r) = Cardinality(keep)
            /\ \A k \in 1..Len(r) :
                 r[k] # None /\ r[k] \in pred /\ r[k] = e[KthOf(keep, k)]
            /\ Len(r) <= Len(valid_entries(src))

\* a filter that dropped an empty slot and an entry failing p, and kept one
C8_Witness ==
    /\ call = "filter_collection"
    /\ \E i \in 1..Len(src.entries) : src.entries[i] = None
    /\ \E i \in Occ(src.entries) : src.entries[i] \in pred
    /\ \E i \in Occ(src.entries) : src.entries[i] \notin pred
    /\ Len(ret.value.entries) = 1

\* C9: compact(c) has no empty slot, its entries are c.valid_entries in the
\* same order and its tags those of c; compact(compact(c)) = compact(c).
C9_Compact ==
    call = "compact" =>
        LET e == src.entries
            r == ret.value.entries
        IN  /\ ret.status = "ok"
            /\ ret.value.tags = src.tags
            /\ Len(r) = Cardinality(Occ(e))
            /\ \A k \in 1..Len(r) : r[k] # None /\ r[k] = e[KthOf(Occ(e), k)]
            /\ valid_entries(ret.value) = valid_entries(src)
            /\ Len(r) = Len(valid_entries(src))
            /\ compact(ret.value) = ret.value

\* a compact of a tagged collection with an empty slot between two entries
C9_Witness ==
    /\ call = "compact"
    /\ src.tags # EmptyTags
    /\ Len(src.entries) = 3
    /\ Occ(src.entries) = {1, 3}
    /\ src.entries[1] # src.entries[3]
    /\ Len(ret.value.entries) = 2

\* C10: get_tags(c, key, fill_with) has one element per non-empty entry of
\* c, in entry order: the entry's value under key when it has the key,
\* fill_with when it has not; empty slots contribute nothing.
C10_GetTags ==
    call = "get_tags" =>
        LET e == src.entries
        IN  /\ ret.status = "ok"
            /\ Len(ret.value) = Cardinality(Occ(e))
            /\ \A k \in 1..Len(ret.value) :
                 LET d == e[KthOf(Occ(e), k)]
                 IN  IF key \in DOMAIN d.tags
                     THEN ret.value[k] = d.tags[key]
                     ELSE ret.value[k] = fill

\* get_tags with a fill value over an empty slot, an entry that has the key
\* and one that lacks it
C10_Witness ==
    /\ call = "get_tags"
    /\ fill = "-1"
    /\ \E i \in 1..Len(src.entries) : src.entries[i] = None
    /\ \E i \in Occ(src.entries) : key \in DOMAIN src.entries[i].tags
    /\ \E i \in Occ(src.entries) : key \notin DOMAIN src.entries[i].tags
    /\ Len(ret.value) = 2

\* the positions of e whose entry has the tag k
Keyed(e, k) == {i \in Occ(e) : k \in DOMAIN e[i].tags}
\* the entries of a group, as a set
Members(group) == {group.entries[n] : n \in 1..Len(group.entries)}

\* C11: group_by_tag(c, key) excludes the entries lacking the key: such an
\* entry appears in none of the groups, and no group key stands for an
\* absent key.
C11_GroupExcludesKeyless ==
    call = "group_by_tag" =>
        /\ PyNone \notin DOMAIN ret.value
        /\ \A i \in Occ(src.entries) \ Keyed(src.entries, key) :
             \A v \in DOMAIN ret.value : src.entries[i] \notin Members(ret.value[v])

\* C12: group_by_tag(c, key) has a group for every distinct value observed
\* under key; an entry that has the key is in the group keyed by its own
\* value and in no other; every group holds its entries in their order in
\* c, has no empty slot and carries the collection tags of c.
C12_GroupByValue ==
    call = "group_by_tag" =>
        LET e == src.entries
            groups == ret.value
        IN  /\ ret.status = "ok"
            /\ \A i \in Keyed(e, key) :
                 /\ e[i].tags[key] \in DOMAIN groups
                 /\ \A v \in DOMAIN groups :
                      e[i] \in Members(groups[v]) <=> v = e[i].tags[key]
            /\ \A v \in DOMAIN groups :
                 LET at == {i \in Occ(e) : Get(e[i].tags, key, PyNone) = v}
                     g == groups[v].entries
                 IN  /\ groups[v].tags = src.tags
                     /\ Len(g) = Cardinality(at)
                     /\ \A n \in 1..Len(g) : g[n] # None /\ g[n] = e[KthOf(at, n)]
                     /\ v # PyNone => at # {}

\* a grouping of a tagged collection with an empty slot and two entries
\* whose values under the key differ
C12_Witness ==
    /\ call = "group_by_tag"
    /\ src.tags # EmptyTags
    /\ \E i \in 1..Len(src.entries) : src.entries[i] = None
    /\ Cardinality(Keyed(src.entries, key)) = 2
    /\ Cardinality(DOMAIN ret.value) = 2

\* every slot of e holds an entry with a value under k, all of one type
AllComparable(e, k) ==
    /\ \A i \in 1..Len(e) : e[i] # None /\ k \in DOMAIN e[i].tags
    /\ \A i, j \in 1..Len(e) : PyType(e[i].tags[k]) = PyType(e[j].tags[k])

\* C13: on a collection whose entries all carry mutually comparable values
\* under key, sort_by returns a collection of the same length and tags whose
\* entries are a permutation of those of c, non-decreasing by tag value
\* (non-increasing when reverse), equal values keeping their order in c.
C13_SortStable ==
    call = "sort_by" /\ AllComparable(src.entries, key) =>
        LET e == src.entries
            r == ret.value.entries
            n == Len(e)
        IN  /\ ret.status = "ok"
            /\ ret.value.tags = src.tags
            /\ Len(r) = n
            /\ \E q \in Permutations(1..n) :
                 /\ \A p \in 1..n : r[p] = e[q[p]]
                 /\ \A a, b \in 1..n :
                      a < b =>
                        LET ka == Rank(e[q[a]].tags[key])
                            kb == Rank(e[q[b]].tags[key])
                        IN  /\ IF reverse THEN ka >= kb ELSE ka <= kb
                            /\ ka = kb => q[a] < q[b]

\* a descending sort of three entries, two of them with the same score but
\* different payloads, the third with a lower score placed first in c
C13_Witness ==
    /\ call = "sort_by" /\ reverse
    /\ AllComparable(src.entries, key)
    /\ Len(src.entries) = 3
    /\ src.entries[1].tags[key] = "10"
    /\ src.entries[2].tags[key] = "20"
    /\ src.entries[3].tags[key] = "20"
    /\ src.entries[2] # src.entries[3]
    /\ ret.status = "ok"
    /\ ret.value.entries = <<src.entries[2], src.entries[3], src.entries[1]>>

\* C14: on equal-length collections compare_tags returns, without error,
\* TRUE exactly when for every key and every position held by more than one
\* collection all the entries at that position have the same value under
\* the key; empty slots are skipped and positions with fewer than two
\* entries impose nothing.
C14_CompareTags ==
    call = "compare_tags" /\ EqualLengths(parts) =>
        LET len == IF parts = <<>> THEN 0 ELSE Len(parts[1].entries)
            agree(i, k) ==
                \A a, b \in HoldersAt(parts, i) :
                    Get(parts[a].entries[i].tags, k, PyNone)
                        = Get(parts[b].entries[i].tags, k, PyNone)
        IN  /\ ret.status = "ok"
            /\ ret.value =
                 (\A n \in 1..Len(keys), i \in 1..len :
                     Cardinality(HoldersAt(parts, i)) > 1 => agree(i, keys[n]))

\* C15: the tags of a value built by datum, and of a collection built by
\* collect, are a copy of the mapping the caller passed: whatever the
\* caller does to that mapping later, the tags read from the container are
\* those given at construction; and two containers built without tags do
\* not share one tag mapping.
C15_DefensiveCopy ==
    pc \in {"made", "made2", "mutated"} =>
        /\ \A i \in 1..Len(vals) : heap[vals[i].tags] = given[i].tags
        /\ \A i, j \in 1..Len(vals) :
             i # j /\ held[i] = Omitted /\ held[j] = Omitted
                => vals[i].tags # vals[j].tags

\* C16: every value-level update returns a new value and leaves its
\* argument unchanged: the payload and tags of every value held are those
\* it was built with; a payload update returns a value with the tags of its
\* argument, a tag update (whose function returns a mapping) a value with
\* the payload of its argument.
C16_UpdatesReturnNew ==
    pc = "updated" /\ (call \in TagOps => FnResult(fn).kind # "list") =>
        /\ \A i \in 1..Len(vals) :
             /\ vals[i].data = given[i].data
             /\ heap[vals[i].tags] = given[i].tags
        /\ ret.status = "ok"
        /\ call \in PayloadOps => heap[ret.value.tags] = heap[vals[target].tags]
        /\ call \in TagOps \cup {"add_tags"} => ret.value.data = vals[target].data

\* C17: map_tags(fn) and over_tags(fn) raise a TypeError and produce no
\* value whenever fn returns something that is not a mapping; when fn
\* returns a mapping m the tags of the result are the tags of the argument
\* overlaid with m: every key of m has the value of m, every other key of
\* the argument keeps its value.
C17_TagUpdate ==
    pc = "updated" /\ call \in TagOps =>
        LET m == FnResult(fn)
            old == heap[vals[target].tags]
        IN  IF m.kind = "list"
              THEN ret.status \in {ErrNotDict, ErrNotDataclass} /\ ret.value = NoValue
              ELSE /\ ret.status = "ok"
                   /\ LET new == heap[ret.value.tags]
                      IN  /\ DOMAIN new = DOMAIN old \cup DOMAIN m.items
                          /\ \A k \in DOMAIN m.items : new[k] = m.items[k]
                          /\ \A k \in DOMAIN old \ DOMAIN m.items : new[k] = old[k]

\* C18: the lifted transform cmap(f) applied to c returns a collection with
\* as many slots as c and the tags of c, in which slot i is empty exactly
\* when c[i] is empty and otherwise holds f(c[i]); f is called once per
\* non-empty entry, in order, and never on an empty slot.
C18_CmapLift ==
    call = "cmap" /\ pc = "done" =>
        LET e == src.entries
            r == ret.value.entries
        IN  /\ ret.status = "ok"
            /\ ret.value.tags = src.tags
            /\ Len(r) = Len(e)
            /\ \A i \in 1..Len(e) :
                 IF e[i] = None THEN r[i] = None
                 ELSE r[i] = Datum(ApplyFn(fn, e[i].data), e[i].tags)
            /\ Len(pcalls) = Cardinality(Occ(e))
            /\ \A n \in 1..Len(pcalls) : pcalls[n] = e[KthOf(Occ(e), n)]

\* a tagged collection with an empty slot between two entries is lifted
C18_Witness ==
    /\ call = "cmap" /\ pc = "done"
    /\ src.tags # EmptyTags
    /\ Len(src.entries) = 3
    /\ src.entries[2] = None
    /\ Occ(src.entries) = {1, 3}
    /\ ret.value.entries[2] = None
    /\ ret.value.entries[3] # src.entries[3]

\* C19: apply, map_tags (with a function that returns a dict) and with_tags
\* (with one value per slot) of MonoCollection leave empty slots empty and
\* keep every entry at its position: the result has the length of the
\* input and is empty at exactly the same positions.
C19_MonoKeepsSlots ==
    /\ call \in {"MonoCollection.apply", "MonoCollection.map_tags",
                 "MonoCollection.with_tags"}
    /\ call = "MonoCollection.map_tags" => FnResult(fn).kind = "dict"
    /\ call = "MonoCollection.with_tags" => Len(keys) = Len(src.entries)
    => /\ ret.status = "ok"
       /\ Len(ret.value.entries) = Len(src.entries)
       /\ Occ(ret.value.entries) = Occ(src.entries)

\* two containers of the same shape with the same content
SameContainer(a, b) == a.shape = b.shape /\ Val(a) = Val(b)
\* the names of the steps are pairwise distinct
DistinctNames(p) == \A i, j \in 1..Len(p) : i # j => p[i][1] # p[j][1]

\* C20: for steps s1..sn under pairwise distinct names, run(x, trace=True)
\* returns (final, trace) where final is what run(x, trace=False) returns,
\* the keys of trace are exactly the n step names, and trace[name_k] is the
\* result of running the first k steps on x, so trace[name_n] = final; the
\* steps are applied in declared order, each exactly once.
C20_PipelineTrace ==
    pc = "returned" /\ trace /\ DistinctNames(steps) =>
        LET n == Len(steps)
            final == ret.value.x
            tr == ret.value.trace_dict
        IN  /\ ret.status = "ok"
            /\ SameContainer(final, RunPrefix(steps, pinput, n))
            /\ DOMAIN tr = {steps[i][1] : i \in 1..n}
            /\ \A i \in 1..n :
                 SameContainer(tr[steps[i][1]], RunPrefix(steps, pinput, i))
            /\ n > 0 => SameContainer(tr[steps[n][1]], final)
            /\ started = [i \in 1..n |-> steps[i][1]]

\* a traced run of two steps on a collection with an entry and an empty
\* slot, whose two snapshots differ
C20_Witness ==
    /\ pc = "returned" /\ trace /\ DistinctNames(steps)
    /\ Len(steps) = 2
    /\ pinput.shape = "collection"
    /\ Len(Val(pinput).entries) = 2
    /\ Val(pinput).entries[1] = None
    /\ Val(pinput).entries[2] # None
    /\ Val(ret.value.trace_dict[steps[1][1]]) # Val(ret.value.trace_dict[steps[2][1]])
    /\ Val(ret.value.trace_dict[steps[1][1]]) # Val(pinput)

LastNamed(p, nm) == CHOOSE i \in 1..Len(p) :
                        p[i][1] = nm /\ \A j \in 1..Len(p) : p[j][1] = nm => j <= i

\* C25: when several steps share a name, run(x, trace=True) does not fail
\* for that; the trace map has one key per distinct step name, the value
\* under a name is the container right after the last step of that name,
\* and the final container is the one the steps give whatever their names.
C25_NameCollision ==
    pc = "returned" /\ trace /\ ~DistinctNames(steps) =>
        LET n == Len(steps)
            tr == ret.value.trace_dict
        IN  /\ ret.status = "ok"
            /\ DOMAIN tr = {steps[i][1] : i \in 1..n}
            /\ \A nm \in DOMAIN tr :
                 SameContainer(tr[nm], RunPrefix(steps, pinput, LastNamed(steps, nm)))
            /\ SameContainer(ret.value.x, RunPrefix(steps, pinput, n))

\* two steps of one name on a bare value, the second changing the value
C25_Witness ==
    /\ pc = "returned" /\ trace
    /\ Len(steps) = 2 /\ steps[1][1] = steps[2][1]
    /\ pinput.shape = "bare" /\ px.shape = "bare"
    /\ Val(RunPrefix(steps, pinput, 1)) # Val(px)
    /\ Val(ret.value.trace_dict[steps[1][1]]) = Val(px)

\* C23: when the current container is a single Datum the transform of the
\* step is applied to the payload only and the result is rewrapped as a
\* Datum with the same tags; when it is neither a Datum nor a collection
\* the transform is applied to it directly; the shape is examined anew
\* before every step.
C23_DatumAndBareDispatch ==
    [][pc = "running" /\ pk' = pk + 1 /\ px.shape # "collection" =>
        LET f == steps[pk + 1][2]
        IN  IF px.shape \in {"datum", "datum2"}
              THEN LET r == StepFn(f, Val(px).data, px.shape = "datum2")
                   IN  /\ r.status = "ok"
                       /\ px'.shape \in {"datum", "datum2"}
                       /\ Val(px').tags = Val(px).tags
                       /\ Val(px').data = r.value
              ELSE LET r == StepFn(f, Val(px), FALSE)
                   IN  /\ r.status = "ok"
                       /\ px'.shape = (IF ReturnsDatum(f) THEN "datum" ELSE "bare")
                       /\ Val(px') = r.value]_vars

\* a bare value is wrapped by the first step, the second step is then
\* applied to the payload of the Datum and the tags are kept
C23_Witness ==
    /\ pc = "returned"
    /\ pinput.shape = "bare"
    /\ Len(steps) = 2 /\ steps[1][2] = "wrap" /\ steps[2][2] = "inc"
    /\ px.shape = "datum"
    /\ Val(px) = Datum(Val(pinput) + 1, WrapTags)

\* C29: in a collection-shaped step the transform receives the whole entry
\* and what it returns becomes the new entry as it is, its tags included,
\* without being rewrapped; on a single Datum the transform receives the
\* payload only, so a transform of entries fails there.
C29_EntryNotRewrapped ==
    [][pc = "running" /\ pk' = pk + 1 /\ px.shape \in {"collection", "datum"} =>
        LET f == steps[pk + 1][2]
            e == Val(px).entries
        IN  IF px.shape = "datum" THEN f \in {"inc", "neg", "wrap"}
            ELSE /\ px'.shape = "collection"
                 /\ Len(Val(px').entries) = Len(e)
                 /\ \A i \in Occ(e) :
                      Val(px').entries[i] =
                        CASE f = "retag" -> Datum(e[i].data, NewTags)
                          [] f = "over_inc" -> Datum(e[i].data + 1, e[i].tags)
                          [] f = "over_dbl" -> Datum(e[i].data * 2, e[i].tags)
                          [] OTHER -> e[i]]_vars

\* a collection step has replaced the tags of an entry
C29_Witness ==
    /\ pc = "returned"
    /\ pinput.shape = "collection"
    /\ Len(steps) = 1 /\ steps[1][2] = "retag"
    /\ \E i \in Occ(Val(pinput).entries) :
         /\ Val(pinput).entries[i].tags = [g |-> "A"]
         /\ Val(px).entries[i] = Datum(Val(pinput).entries[i].data, NewTags)

(***************************************************************************)
(* Sequential and parallel runs (SpecRun).                                 *)
(***************************************************************************)
\* x is a collection with the slots of c: as many, empty at the same
\* positions, under the same collection tags
SameSlots(x, c) ==
    /\ x.shape = "collection"
    /\ Len(Val(x).entries) = Len(Val(c).entries)
    /\ \A i \in 1..Len(Val(c).entries) :
         (Val(x).entries[i] = None) <=> (Val(c).entries[i] = None)
    /\ Val(x).tags = Val(c).tags

\* C24: when run is started on a collection c, with transforms that return
\* a Datum for a Datum, then after every step, hence in every snapshot of
\* the trace and in the result, the container is a collection with len(c)
\* slots, empty exactly where c is empty, under the collection tags of c;
\* in sequential and in parallel mode.
C24_ShapeInvariant ==
    call = "run" /\ pinput.shape = "collection" =>
        /\ SameSlots(px, pinput)
        /\ \A nm \in DOMAIN trace_dict : SameSlots(trace_dict[nm], pinput)
        /\ pc = "returned" => SameSlots(ret.value.x, pinput)

\* a parallel run of two steps over a collection with an empty slot between
\* two entries has returned, with its trace
C24_Witness ==
    /\ pc = "returned" /\ parallel /\ trace
    /\ pinput.shape = "collection"
    /\ Len(steps) = 2 /\ DOMAIN trace_dict = {"a", "b"}
    /\ Len(Val(pinput).entries) = 3
    /\ Val(pinput).entries[2] = None
    /\ Val(px).entries[1] # Val(pinput).entries[1]
    /\ Val(px).entries[2] = None

\* the trace maps d and e are equal by value
SameTrace(d, e) ==
    /\ DOMAIN d = DOMAIN e
    /\ \A nm \in DOMAIN d : SameContainer(d[nm], e[nm])

StepError(x, f) ==
    IF x.shape = "collection"
      THEN IF FirstFailing(Val(x).entries, f) = 0 THEN "ok"
           ELSE apply(f, Val(x).entries[FirstFailing(Val(x).entries, f)]).status
      ELSE IF x.shape = "bare" THEN bare_step(x, f).status ELSE datum_step(x, f).status

\* C22: when the transform of step k raises for an entry, or for the single
\* value, run ends with that error: no container and no trace map is
\* returned, no step after k is started and nothing follows, in sequential
\* and in parallel mode; in sequential mode apply is not called on any
\* entry after the failing one.
C22_FailFast ==
    [][LET k == pk + 1
           err == IF pk < Len(steps) THEN StepError(px, steps[k][2]) ELSE "ok"
       IN  /\ pc # "raised"
           /\ pc = "running" /\ err # "ok" => pc' \in {"mapping", "raised"}
           /\ pc \in {"mapping", "failing"} /\ err # "ok" =>
                 pc' \in {"mapping", "failing", "raised"}
           /\ pc' = "raised" =>
                 /\ ret'.status # "ok"
                 /\ ret'.value = NoValue
                 /\ pk' = pk /\ Len(started') = k
                 /\ \A j \in 1..Len(tasks') : tasks'[j].step <= k
                 /\ (~parallel \/ (~use_processes /\ max_workers > 0)) =>
                       ret'.status = err
                 /\ ~parallel /\ px.shape = "collection" =>
                       LET ts == StepTasks(tasks', k)
                       IN  /\ Len(ts) = FirstFailing(Val(px).entries, steps[k][2])
                           /\ \A i \in 1..Len(ts) : ts[i].pos = i]_vars

\* a sequential run has raised in its second step at the second of three
\* entries: apply was called on two entries of that step
C22_Witness ==
    /\ pc = "raised" /\ ~parallel
    /\ pinput.shape = "collection"
    /\ pk = 1 /\ Len(steps) = 2
    /\ Len(Val(pinput).entries) = 3
    /\ ret.status = ErrBoom
    /\ Len(StepTasks(tasks, 2)) = 2

\* C26: in a parallel run no call of apply of step k+1 starts before every
\* call of step k is done and the results are gathered in the order of the
\* entries: the argument of a call of step k+1 is the result of the call
\* of step k at the same position, and the entry of the current collection
\* at that position.
C26_StepBarrier ==
    parallel =>
        \A j \in 1..Len(tasks) :
            LET t == tasks[j]
                before == StepTasks(tasks, t.step - 1)
            IN  t.state \in {"running", "done"} =>
                  /\ t.step = pk + 1 => t.arg = Val(px).entries[t.pos]
                  /\ t.step > 1 =>
                        /\ \A i \in 1..Len(before) :
                              before[i].state = "done" /\ before[i].out.status = "ok"
                        /\ t.pos \in 1..Len(before)
                        /\ before[t.pos].pos = t.pos
                        /\ t.arg = before[t.pos].out.value

\* a call of the second step is running on the result that the first step
\* gave at its position, the third of three
C26_Witness ==
    /\ pc = "mapping" /\ parallel /\ pk = 1
    /\ \E j \in 1..Len(tasks) :
         /\ tasks[j].step = 2 /\ tasks[j].pos = 3 /\ tasks[j].state = "running"
         /\ tasks[j].arg # None
         /\ tasks[j].arg # Val(pinput).entries[3]
         /\ tasks[j].arg # StepTasks(tasks, 1)[1].out.value

\* C27: in a run with parallel=True a pool is created at the start of each
\* step on a collection and shut down before the next step begins, also
\* when the step raises: at most one pool of the run is open at any time
\* and none after the run; no pool is created for a step on a Datum or on
\* a bare value, nor when parallel=False.
C27_PoolLifetime ==
    LET open == {i \in 1..Len(pools) : pools[i].open}
    IN  /\ Cardinality(open) <= 1
        /\ pc \in {"running", "returned", "raised"} => open = {}
        /\ pc \in {"mapping", "failing"} =>
              open = {Len(pools)} /\ pools[Len(pools)].step = pk + 1
        /\ Len(pools) = IF parallel /\ pinput.shape = "collection" /\ max_workers > 0
                           THEN Len(started) ELSE 0
        /\ \A i \in 1..Len(pools) :
              /\ pools[i].step = i
              /\ RunPrefix(steps, pinput, i - 1).shape = "collection"

\* a parallel run has raised in its second step: two pools were created,
\* none is open
C27_Witness ==
    /\ pc = "raised" /\ parallel
    /\ Len(pools) = 2
    /\ \A i \in 1..Len(pools) : ~pools[i].open
    /\ \E j \in 1..Len(tasks) : tasks[j].state = "cancelled"

(***************************************************************************)
(* dict_pipe.                                                              *)
(***************************************************************************)
\* C30: every call of the function returned by dict_pipe(registry) returns
\* a mapping that holds, for every name of the registry, the value after
\* that step for the input of this call, and the mapping returned by a call
\* is not changed by a later call of the same function.
C30_CallsIndependent ==
    \A i \in 1..Len(dcalls) :
        /\ DOMAIN dcalls[i].at_return = {dreg[n][1] : n \in 1..Len(dreg)}
        /\ \A n \in 1..Len(dreg) :
             dcalls[i].at_return[dreg[n][1]] = ValueAfter(dreg, dcalls[i].input, n)
        /\ dheap[dcalls[i].ref] = dcalls[i].at_return
====
